---- MODULE Spec2Model ----
(***************************************************************************)
(* Model of OpenSim's TableSource_ (OpenSim/Common/TableSource.h): a       *)
(* Component that holds a TimeSeriesTable_ (_table), mirrors its column    *)
(* labels as the channels of its list output "column", and answers         *)
(* point-in-time queries getColumnAtTime / getRowAtTime by exact lookup or *)
(* linear interpolation.                                                   *)
(*                                                                         *)
(* Times and elements are doubles in the source.  Here timestamps and      *)
(* stored elements are integers and every computed value is an exact       *)
(* rational <<numerator, denominator>> in lowest terms, so the arithmetic  *)
(* of the interpolation is modelled without rounding.                      *)
(***************************************************************************)
EXTENDS Integers, Sequences, FiniteSets, TLC

VARIABLES table, channels, op, res

vars == <<table, channels, op, res>>

(* ------------------------------ bounds --------------------------------- *)

\* Largest number of rows and largest timestamp of the tables that are queried.
MaxRows == 3
MaxTime == 3
\* Largest number of rows (and largest timestamp) of the tables that are
\* constructed into / set into the source in the lifecycle specification.
LcMaxRows == 1

\* Column labels a table may carry, and a label no table carries.
Labels == {"a", "b"}
UnknownLabel == "z"
QueryLabels == Labels \cup {UnknownLabel}
\* Element values: two distinct values tell rows and columns apart.
Elts == {0, 1}

(* --------------------------- exact rationals --------------------------- *)

Abs(x) == IF x < 0 THEN -x ELSE x

RECURSIVE GCD(_, _)
GCD(a, b) == IF b = 0 THEN a ELSE GCD(b, a % b)

\* n/d in lowest terms with a positive denominator; <<0, 0>> stands for the
\* non-finite result of a division by zero.
Rat(n, d) ==
    IF d = 0 THEN <<0, 0>>
    ELSE LET g == GCD(Abs(n), Abs(d))
             s == IF d < 0 THEN -1 ELSE 1
         IN <<(s * n) \div g, (s * d) \div g>>

R(n) == <<n, 1>>
Finite(x) == x[2] # 0
RAdd(x, y) == IF Finite(x) /\ Finite(y) THEN Rat(x[1] * y[2] + y[1] * x[2], x[2] * y[2]) ELSE <<0, 0>>
RMul(x, y) == IF Finite(x) /\ Finite(y) THEN Rat(x[1] * y[1], x[2] * y[2]) ELSE <<0, 0>>
RDiv(x, y) == IF Finite(x) /\ Finite(y) THEN Rat(x[1] * y[2], x[2] * y[1]) ELSE <<0, 0>>

(* ------------------------------- tables -------------------------------- *)

\* Sequences of distinct labels: the column labels of a table, in order.
LabelSeqs ==
    UNION { { s \in [1..n -> Labels] : \A i, j \in 1..n : i # j => s[i] # s[j] }
            : n \in 0..Cardinality(Labels) }

\* Independent columns: the table producer keeps them non-decreasing.
TimeCols(maxRows, maxTime) ==
    UNION { { s \in [1..n -> 0..maxTime] : \A i \in 1..(n-1) : s[i] <= s[i+1] }
            : n \in 0..maxRows }

\* A TimeSeriesTable_: with column labels (hasLabels) or without the
\* "labels" key; rows[i] is the row stamped times[i].
TableSet(maxRows, maxTime) ==
    UNION { UNION { [hasLabels : {TRUE}, labels : {l}, times : {t},
                     rows : [1..Len(t) -> [1..Len(l) -> Elts]]]
                    : t \in TimeCols(maxRows, maxTime) }
            : l \in LabelSeqs }
    \cup
    UNION { UNION { [hasLabels : {FALSE}, labels : {<<>>}, times : {t},
                     rows : [1..Len(t) -> [1..w -> Elts]]]
                    : t \in TimeCols(maxRows, maxTime) }
            : w \in 0..Cardinality(Labels) }

Tables == TableSet(MaxRows, MaxTime)
LcTables == TableSet(LcMaxRows, LcMaxRows)

\* Query times: every timestamp a table may hold, and one below and above.
QueryTimes == (0 - 1)..(MaxTime + 1)

getNumRows(tbl) == Len(tbl.times)
LabelSet(tbl) == { tbl.labels[i] : i \in 1..Len(tbl.labels) }

(* ----------------------- outcomes of an operation ----------------------- *)

Ok == [kind |-> "ok"]
Value(v) == [kind |-> "value", val |-> v]
EmptyTable == [kind |-> "EmptyTable"]
KeyNotFound == [kind |-> "KeyNotFound"]
DuplicateChannel == [kind |-> "DuplicateChannel"]
\* The exception's message records min, max and the offending timestamp.
TimeOutOfRange(timestamp, minTimestamp, maxTimestamp) ==
    [kind |-> "TimeOutOfRange", timestamp |-> timestamp,
     minTimestamp |-> minTimestamp, maxTimestamp |-> maxTimestamp]

(* --------------------------- table accessors --------------------------- *)

\* 0-based index of a column label; -1 stands for the KeyNotFound it throws
\* when the label is absent (or the table has no labels at all).
getColumnIndex(tbl, columnLabel) ==
    IF tbl.hasLabels /\ columnLabel \in LabelSet(tbl)
    THEN (CHOOSE i \in 1..Len(tbl.labels) : tbl.labels[i] = columnLabel) - 1
    ELSE 0 - 1

\* getMatrix().getElt(i, j), 0-based.
getElt(tbl, i, j) == tbl.rows[i + 1][j + 1]

\* getRowAtIndex(i).getAsVector(), 0-based row index.
getRowAtIndex(tbl, i) == tbl.rows[i + 1]

\* The binary search with <= for <: std::upper_bound, the first timestamp
\* greater than the time.
RECURSIVE lowerBoundLoop_Upper(_, _, _, _)
lowerBoundLoop_Upper(timeCol, time, first, len) ==
    IF len <= 0 THEN first
    ELSE LET half == len \div 2
             middle == first + half
         IN IF timeCol[middle + 1] <= time
            THEN lowerBoundLoop_Upper(timeCol, time, middle + 1, len - half - 1)
            ELSE lowerBoundLoop_Upper(timeCol, time, first, half)

\* std::lower_bound(timeCol.begin(), timeCol.end(), time) - timeCol.begin():
\* the binary search over [first, first + len).
RECURSIVE lowerBoundLoop(_, _, _, _)
lowerBoundLoop(timeCol, time, first, len) ==
    IF len <= 0 THEN first
    ELSE LET half == len \div 2
             middle == first + half
         IN IF timeCol[middle + 1] < time
            THEN lowerBoundLoop(timeCol, time, middle + 1, len - half - 1)
            ELSE lowerBoundLoop(timeCol, time, first, half)

\* The search started one past timeCol.begin().
lower_bound_SkipFirst(timeCol, time) ==
    IF Len(timeCol) = 0 THEN 0
    ELSE lowerBoundLoop(timeCol, time, 1, Len(timeCol) - 1)

lower_bound(timeCol, time) == lowerBoundLoop(timeCol, time, 0, Len(timeCol))

(* ------------------------------- queries ------------------------------- *)

\* The interpolation with the fraction taken from the far end:
\* ((nextTime - time) / (nextTime - prevTime)) * (nextElt - prevElt) + prevElt
interpElt_FracFromNext(time, prevTime, nextTime, prevElt, nextElt) ==
    RAdd(RMul(RDiv(R(nextTime - time), R(nextTime - prevTime)),
              R(nextElt - prevElt)),
         R(prevElt))

\* ((time - prevTime) / (nextTime - prevTime)) * (nextElt - prevElt) + prevElt
interpElt(time, prevTime, nextTime, prevElt, nextElt) ==
    RAdd(RMul(RDiv(R(time - prevTime), R(nextTime - prevTime)),
              R(nextElt - prevElt)),
         R(prevElt))

\* The row interpolation with the parentheses of the difference lost:
\* ((time - prevTime) / (nextTime - prevTime)) * nextRow - prevRow + prevRow
interpRow_Precedence(time, prevTime, nextTime, prevRow, nextRow) ==
    LET frac == RDiv(R(time - prevTime), R(nextTime - prevTime))
    IN [k \in 1..Len(prevRow) |->
            RAdd(RAdd(RMul(frac, R(nextRow[k])), R(0 - prevRow[k])), R(prevRow[k]))]

\* ((time - prevTime) / (nextTime - prevTime)) * (nextRow - prevRow) + prevRow
\* on row vectors: the scalar fraction scales the element-wise difference.
interpRow(time, prevTime, nextTime, prevRow, nextRow) ==
    LET frac == RDiv(R(time - prevTime), R(nextTime - prevTime))
    IN [k \in 1..Len(prevRow) |->
            RAdd(RMul(frac, R(nextRow[k] - prevRow[k])), R(prevRow[k]))]

asVector(row) == [k \in 1..Len(row) |-> R(row[k])]

\* getColumnAtTime with the column label resolved before the empty and range
\* checks.
getColumnAtTime_LabelFirst(tbl, time, columnLabel) ==
    LET colInd == getColumnIndex(tbl, columnLabel)
    IN  IF colInd < 0 THEN KeyNotFound
        ELSE IF getNumRows(tbl) = 0 THEN EmptyTable
        ELSE
        LET timeCol == tbl.times
            front == timeCol[1]
            back == timeCol[Len(timeCol)]
            lb == lower_bound(timeCol, time)
        IN  IF time < front \/ time > back
            THEN TimeOutOfRange(time, front, back)
            ELSE IF lb = 0
            THEN Value(R(getElt(tbl, 0, colInd)))
            ELSE IF lb = Len(timeCol)
            THEN Value(R(getElt(tbl, Len(timeCol) - 1, colInd)))
            ELSE IF timeCol[lb + 1] = time
            THEN Value(R(getElt(tbl, lb, colInd)))
            ELSE Value(interpElt(time, timeCol[lb], timeCol[lb + 1],
                                 getElt(tbl, lb - 1, colInd),
                                 getElt(tbl, lb, colInd)))

\* getColumnAtTime whose exact-hit branch reads the row before the hit.
getColumnAtTime_HitOffByOne(tbl, time, columnLabel) ==
    IF getNumRows(tbl) = 0 THEN EmptyTable
    ELSE
    LET timeCol == tbl.times
        front == timeCol[1]
        back == timeCol[Len(timeCol)]
    IN  IF time < front \/ time > back
        THEN TimeOutOfRange(time, front, back)
        ELSE
        LET colInd == getColumnIndex(tbl, columnLabel)
            lb == lower_bound(timeCol, time)
        IN  IF colInd < 0 THEN KeyNotFound
            ELSE IF lb = 0
            THEN Value(R(getElt(tbl, 0, colInd)))
            ELSE IF lb = Len(timeCol)
            THEN Value(R(getElt(tbl, Len(timeCol) - 1, colInd)))
            ELSE IF timeCol[lb + 1] = time
            THEN Value(R(getElt(tbl, lb - 1, colInd)))
            ELSE Value(interpElt(time, timeCol[lb], timeCol[lb + 1],
                                 getElt(tbl, lb - 1, colInd),
                                 getElt(tbl, lb, colInd)))

getColumnAtTime(tbl, time, columnLabel) ==
    IF getNumRows(tbl) = 0 THEN EmptyTable
    ELSE
    LET timeCol == tbl.times
        front == timeCol[1]
        back == timeCol[Len(timeCol)]
    IN  IF time < front \/ time > back
        THEN TimeOutOfRange(time, front, back)
        ELSE
        LET colInd == getColumnIndex(tbl, columnLabel)
            lb == lower_bound(timeCol, time)
        IN  IF colInd < 0 THEN KeyNotFound
            ELSE IF lb = 0
            THEN Value(R(getElt(tbl, 0, colInd)))
            ELSE IF lb = Len(timeCol)
            THEN Value(R(getElt(tbl, Len(timeCol) - 1, colInd)))
            ELSE IF timeCol[lb + 1] = time
            THEN Value(R(getElt(tbl, lb, colInd)))
            ELSE Value(interpElt(time, timeCol[lb], timeCol[lb + 1],
                                 getElt(tbl, lb - 1, colInd),
                                 getElt(tbl, lb, colInd)))

\* getRowAtTime that rejects only times before the first timestamp: a later
\* time falls through to the past-the-end branch and yields the last row.
getRowAtTime_ClampHigh(tbl, time) ==
    IF getNumRows(tbl) = 0 THEN EmptyTable
    ELSE
    LET timeCol == tbl.times
        front == timeCol[1]
        back == timeCol[Len(timeCol)]
    IN  IF time < front
        THEN TimeOutOfRange(time, front, back)
        ELSE
        LET lb == lower_bound(timeCol, time)
        IN  IF lb = 0
            THEN Value(asVector(getRowAtIndex(tbl, 0)))
            ELSE IF lb = Len(timeCol)
            THEN Value(asVector(getRowAtIndex(tbl, Len(timeCol) - 1)))
            ELSE IF timeCol[lb + 1] = time
            THEN Value(asVector(getRowAtIndex(tbl, lb)))
            ELSE Value(interpRow(time, timeCol[lb], timeCol[lb + 1],
                                 getRowAtIndex(tbl, lb - 1),
                                 getRowAtIndex(tbl, lb)))

getRowAtTime(tbl, time) ==
    IF getNumRows(tbl) = 0 THEN EmptyTable
    ELSE
    LET timeCol == tbl.times
        front == timeCol[1]
        back == timeCol[Len(timeCol)]
    IN  IF time < front \/ time > back
        THEN TimeOutOfRange(time, front, back)
        ELSE
        LET lb == lower_bound(timeCol, time)
        IN  IF lb = 0
            THEN Value(asVector(getRowAtIndex(tbl, 0)))
            ELSE IF lb = Len(timeCol)
            THEN Value(asVector(getRowAtIndex(tbl, Len(timeCol) - 1)))
            ELSE IF timeCol[lb + 1] = time
            THEN Value(asVector(getRowAtIndex(tbl, lb)))
            ELSE Value(interpRow(time, timeCol[lb], timeCol[lb + 1],
                                 getRowAtIndex(tbl, lb - 1),
                                 getRowAtIndex(tbl, lb)))

(* -------------------------- channel registry --------------------------- *)

\* Output::clearChannels()
clearChannels(chs) == {}

\* Output::addChannel(label): a label already registered is a
\* DuplicateChannel fault and leaves the registry as it was.
addChannel(chs, label) ==
    IF label \in chs
    THEN [channels |-> chs, res |-> DuplicateChannel]
    ELSE [channels |-> chs \cup {label}, res |-> Ok]

\* The loop left after its first pass: only the first label gets a channel.
addChannels_FirstOnly(chs, labels) ==
    IF labels = <<>> THEN [channels |-> chs, res |-> Ok]
    ELSE addChannel(chs, Head(labels))

\* for(const auto& columnLabel : labels) columnOutput.addChannel(columnLabel);
\* the first throwing addChannel ends the loop.
RECURSIVE addChannels(_, _)
addChannels(chs, labels) ==
    IF labels = <<>> THEN [channels |-> chs, res |-> Ok]
    ELSE LET r == addChannel(chs, Head(labels))
         IN IF r.res # Ok THEN r ELSE addChannels(r.channels, Tail(labels))

\* setTable without the clearChannels() call: the new labels are added to
\* whatever the output held.
setTable_NoClear(tbl, chs, newTable) ==
    IF ~newTable.hasLabels
    THEN [table |-> newTable, channels |-> chs, res |-> KeyNotFound]
    ELSE LET r == addChannels(chs, newTable.labels)
         IN [table |-> newTable, channels |-> r.channels, res |-> r.res]

\* setTable(table): assign _table, clear the channels, then read the new
\* table's column labels (KeyNotFound if it has none) and add a channel each.
setTable(tbl, chs, newTable) ==
    LET cleared == clearChannels(chs)
    IN IF ~newTable.hasLabels
       THEN [table |-> newTable, channels |-> cleared, res |-> KeyNotFound]
       ELSE LET r == addChannels(cleared, newTable.labels)
            IN [table |-> newTable, channels |-> r.channels, res |-> r.res]

\* extendFinalizeFromProperties that only calls Super: no channel is added.
extendFinalizeFromProperties_SuperOnly(tbl, chs) ==
    [table |-> tbl, channels |-> chs,
     res |-> IF tbl.hasLabels THEN Ok ELSE KeyNotFound]

\* extendFinalizeFromProperties(): add a channel per column label of _table
\* to the channels the output already has.
extendFinalizeFromProperties(tbl, chs) ==
    IF ~tbl.hasLabels
    THEN [table |-> tbl, channels |-> chs, res |-> KeyNotFound]
    ELSE LET r == addChannels(chs, tbl.labels)
         IN [table |-> tbl, channels |-> r.channels, res |-> r.res]

(* ------------------------------- actions ------------------------------- *)

\* TableSource_(const Table& table): _table{table}; the default constructor
\* is the case of the empty table without labels.  No channel exists yet.
Init ==
    /\ table \in LcTables
    /\ channels = {}
    /\ op = [name |-> "construct"]
    /\ res = Ok

SetTable ==
    \E newTable \in LcTables :
        LET r == setTable(table, channels, newTable)
        IN /\ table' = r.table
           /\ channels' = r.channels
           /\ op' = [name |-> "setTable", arg |-> newTable]
           /\ res' = r.res

ExtendFinalizeFromProperties ==
    LET r == extendFinalizeFromProperties(table, channels)
    IN /\ table' = r.table
       /\ channels' = r.channels
       /\ op' = [name |-> "extendFinalizeFromProperties"]
       /\ res' = r.res

GetColumnAtTime ==
    \E time \in QueryTimes, columnLabel \in QueryLabels :
        /\ op' = [name |-> "getColumnAtTime", time |-> time, label |-> columnLabel]
        /\ res' = getColumnAtTime(table, time, columnLabel)
        /\ UNCHANGED <<table, channels>>

\* A row query that consumes the table: it drops the rows stamped before the
\* queried time.
GetRowAtTime_Consuming ==
    \E time \in QueryTimes :
        /\ op' = [name |-> "getRowAtTime", time |-> time]
        /\ res' = getRowAtTime(table, time)
        /\ table' = [table EXCEPT
                        !.times = SelectSeq(table.times, LAMBDA t : t >= time),
                        !.rows = SubSeq(table.rows,
                                        Len(table.times) + 1
                                          - Len(SelectSeq(table.times, LAMBDA t : t >= time)),
                                        Len(table.times))]
        /\ UNCHANGED channels

GetRowAtTime ==
    \E time \in QueryTimes :
        /\ op' = [name |-> "getRowAtTime", time |-> time]
        /\ res' = getRowAtTime(table, time)
        /\ UNCHANGED <<table, channels>>

Next ==
    \/ SetTable
    \/ ExtendFinalizeFromProperties
    \/ GetColumnAtTime
    \/ GetRowAtTime

Spec == Init /\ [][Next]_vars

\* The queries on their own, over every table up to MaxRows rows.  The source
\* holds a table whose channels were registered at initialization and answers
\* one query: a query reads nothing but the held table, which no query
\* changes, so one query per behaviour covers every table, time and label.
InitQuery ==
    /\ table \in Tables
    /\ channels = LabelSet(table)
    /\ op = [name |-> "extendFinalizeFromProperties"]
    /\ res = IF table.hasLabels THEN Ok ELSE KeyNotFound

Initialized == op.name = "extendFinalizeFromProperties"

NextQuery ==
    \/ Initialized /\ GetColumnAtTime
    \/ Initialized /\ GetRowAtTime

SpecQuery == InitQuery /\ [][NextQuery]_vars

(* ------------------------------- claims -------------------------------- *)

\* C1: when setTable(T) has returned successfully, the channels of the
\* "column" output are exactly T's column labels, whatever they were before.
C1_RegistrySynchronized ==
    (op.name = "setTable" /\ res = Ok) =>
        channels = { op.arg.labels[i] : i \in 1..Len(op.arg.labels) }

\* A successful setTable of a two-column table.
C1_Witness ==
    /\ op.name = "setTable"
    /\ res = Ok
    /\ Len(op.arg.labels) = 2
    /\ channels = {"a", "b"}

\* C2: setTable is atomic: a setTable that fails leaves the held table and
\* the channels exactly as they were before the call.
C2_SetTableAtomic ==
    [][(op'.name = "setTable" /\ res' # Ok) =>
            (table' = table /\ channels' = channels)]_vars

\* C3 as stated: right after construction from a table, before any other
\* operation, the channels are the table's column labels.
C3_ConstructSynchronizes ==
    op.name = "construct" => channels = LabelSet(table)

\* C3 amended: construction adopts the table and leaves the "column" output
\* without channels; the first extendFinalizeFromProperties after it, when
\* it succeeds, makes the channels the table's column labels.
C3_ConstructThenFinalize ==
    /\ [](op.name = "construct" => channels = {})
    /\ [][(op.name = "construct" /\ op'.name = "extendFinalizeFromProperties"
            /\ res' = Ok)
            => (table' = table /\ channels' = LabelSet(table))]_vars

\* A source constructed from a table with two column labels and no channels.
C3_Witness ==
    /\ op.name = "construct"
    /\ table.hasLabels
    /\ Len(table.labels) = 2
    /\ channels = {}

(* ------------------------ claims on the queries ------------------------ *)

IsQuery == op.name \in {"getColumnAtTime", "getRowAtTime"}
NonEmpty == Len(table.times) > 0
First == table.times[1]
Last == table.times[Len(table.times)]
StrictlyIncreasing ==
    \A i \in 1..(Len(table.times) - 1) : table.times[i] < table.times[i + 1]
\* The position (1-based) of a column label of the held table.
ColumnOf(label) == CHOOSE k \in 1..Len(table.labels) : table.labels[k] = label
KnownLabel == op.name = "getColumnAtTime" /\ op.label \in LabelSet(table)

\* C4: on a non-empty table, a query (by column or by row) at a time before
\* the first or after the last timestamp fails with TimeOutOfRange carrying
\* that time and the first and last timestamps; it never yields a value.
C4_RangeRejection ==
    (IsQuery /\ NonEmpty /\ (op.time < First \/ op.time > Last)) =>
        res = [kind |-> "TimeOutOfRange", timestamp |-> op.time,
               minTimestamp |-> First, maxTimestamp |-> Last]

\* A row query above the last timestamp of a two-row table, rejected.
C4_Witness ==
    /\ op.name = "getRowAtTime"
    /\ Len(table.times) = 2
    /\ op.time > Last
    /\ res.kind = "TimeOutOfRange"

\* C5: on a table with zero rows every query, at every time and for every
\* label, fails with EmptyTable.
C5_EmptyTable ==
    (IsQuery /\ ~NonEmpty) => res = [kind |-> "EmptyTable"]

\* A column query with an unknown label on an empty table that has labels.
C5_Witness ==
    /\ op.name = "getColumnAtTime"
    /\ op.label = UnknownLabel
    /\ table.hasLabels
    /\ Len(table.times) = 0
    /\ res.kind = "EmptyTable"

\* C6: on a table with strictly increasing timestamps, a query at the
\* timestamp of row i yields row i itself (by row), or its element in the
\* column of the label (by column), including the first and the last row.
C6_ExactHit ==
    (IsQuery /\ StrictlyIncreasing) =>
        \A i \in 1..Len(table.times) :
            op.time = table.times[i] =>
                /\ op.name = "getRowAtTime" =>
                     res = [kind |-> "value",
                            val |-> [k \in 1..Len(table.rows[i]) |->
                                        <<table.rows[i][k], 1>>]]
                /\ KnownLabel =>
                     res = [kind |-> "value",
                            val |-> <<table.rows[i][ColumnOf(op.label)], 1>>]

\* A column query at the middle timestamp of a three-row table whose
\* column holds 0, 1, 0: the stored 1 comes back.
C6_Witness ==
    /\ KnownLabel
    /\ StrictlyIncreasing
    /\ Len(table.times) = 3
    /\ op.time = table.times[2]
    /\ table.rows[1][ColumnOf(op.label)] = 0
    /\ table.rows[2][ColumnOf(op.label)] = 1
    /\ table.rows[3][ColumnOf(op.label)] = 0
    /\ res = [kind |-> "value", val |-> <<1, 1>>]

\* v = prev + ((time - tPrev) / (tNext - tPrev)) * (next - prev), stated on
\* the fraction v = <<n, d>> without dividing.
OnTheLine(v, time, tPrev, tNext, prev, next) ==
    /\ v[2] > 0
    /\ v[1] * (tNext - tPrev) =
         v[2] * (prev * (tNext - tPrev) + (time - tPrev) * (next - prev))

\* C7: on a table with strictly increasing timestamps, a query at a time
\* strictly between the timestamps of the consecutive rows i-1 and i yields
\* prev + ((time - time[i-1]) / (time[i] - time[i-1])) * (next - prev) with
\* prev and next the values of rows i-1 and i (in every column, by row).
C7_Interpolation ==
    (IsQuery /\ StrictlyIncreasing) =>
        \A i \in 2..Len(table.times) :
            (table.times[i - 1] < op.time /\ op.time < table.times[i]) =>
                /\ KnownLabel =>
                     /\ res.kind = "value"
                     /\ OnTheLine(res.val, op.time, table.times[i - 1], table.times[i],
                                  table.rows[i - 1][ColumnOf(op.label)],
                                  table.rows[i][ColumnOf(op.label)])
                /\ op.name = "getRowAtTime" =>
                     /\ res.kind = "value"
                     /\ Len(res.val) = Len(table.rows[i])
                     /\ \A k \in 1..Len(table.rows[i]) :
                            OnTheLine(res.val[k], op.time,
                                      table.times[i - 1], table.times[i],
                                      table.rows[i - 1][k], table.rows[i][k])

\* The table [(1, 0), (3, 1)] queried half way, at 2, gives 1/2.
C7_Witness ==
    /\ KnownLabel
    /\ table.times = <<1, 3>>
    /\ table.rows[1][ColumnOf(op.label)] = 0
    /\ table.rows[2][ColumnOf(op.label)] = 1
    /\ op.time = 2
    /\ res = [kind |-> "value", val |-> <<1, 2>>]

\* C8: the row query and the column query agree: at the same time, element k
\* of the row result is the column result for the label of column k, and the
\* row query fails with EmptyTable or TimeOutOfRange exactly when the column
\* query fails with that same error.
C8_RowColumnConsistency ==
    /\ op.name = "getRowAtTime" =>
         \A k \in 1..Len(table.labels) :
            LET col == getColumnAtTime(table, op.time, table.labels[k])
            IN IF res.kind = "value"
               THEN col.kind = "value" /\ col.val = res.val[k]
               ELSE col = res
    /\ KnownLabel =>
         LET row == getRowAtTime(table, op.time)
         IN IF res.kind = "value"
            THEN row.kind = "value" /\ row.val[ColumnOf(op.label)] = res.val
            ELSE row = res

\* A row query that interpolated a two-column row with different elements.
C8_Witness ==
    /\ op.name = "getRowAtTime"
    /\ Len(table.labels) = 2
    /\ res.kind = "value"
    /\ res.val[1][2] > 1
    /\ res.val[2][2] = 1

\* C9 as stated: a column query with a label that is no column label of the
\* held table fails with KeyNotFound at every time, also on an empty table
\* and outside the time range.
C9_LabelResolvedFirst ==
    (op.name = "getColumnAtTime" /\ op.label \notin LabelSet(table)) =>
        res.kind = "KeyNotFound"

\* C9 amended: the label is resolved after the empty and the range check: a
\* column query with a label that is no column label of the held table fails
\* with EmptyTable on an empty table, with TimeOutOfRange outside the time
\* range, and with KeyNotFound only on a non-empty table within the range.
C9_LabelResolvedLast ==
    (op.name = "getColumnAtTime" /\ op.label \notin LabelSet(table)) =>
        res.kind = IF ~NonEmpty THEN "EmptyTable"
                   ELSE IF op.time < First \/ op.time > Last THEN "TimeOutOfRange"
                   ELSE "KeyNotFound"

\* An unknown label asked of a labelled table outside its time range.
C9_Witness ==
    /\ op.name = "getColumnAtTime"
    /\ op.label = UnknownLabel
    /\ table.hasLabels
    /\ NonEmpty
    /\ op.time < First
    /\ res.kind = "TimeOutOfRange"

\* C10: a query, whatever its outcome, leaves the held table and the
\* channels unchanged.
C10_QueriesReadOnly ==
    [][op'.name \in {"getColumnAtTime", "getRowAtTime"} =>
            (table' = table /\ channels' = channels)]_vars

\* A row query that returned a value on a source whose channels are in place.
C10_Witness ==
    /\ op.name = "getRowAtTime"
    /\ res.kind = "value"
    /\ channels = {"a", "b"}
    /\ LabelSet(table) = {"a", "b"}

(* -------------------- claims on the channel lifecycle ------------------- *)

\* C11: in every reachable state every channel's label is a column label of
\* the held table, and a column query through a registered channel never
\* fails with KeyNotFound.
C11_ChannelsAreColumns ==
    /\ channels \subseteq LabelSet(table)
    /\ (op.name = "getColumnAtTime" /\ op.label \in channels) =>
            res.kind # "KeyNotFound"

\* A column query through the only channel left, "b", that returned a value.
C11_Witness ==
    /\ op.name = "getColumnAtTime"
    /\ channels = {"b"}
    /\ op.label = "b"
    /\ res.kind = "value"

\* C12 as stated: a step other than setTable (a query, or
\* extendFinalizeFromProperties) leaves the set of channel labels unchanged.
C12_OnlySetTableChanges ==
    [][op'.name # "setTable" => channels' = channels]_vars

\* C12 amended: the set of channel labels changes only in setTable, or in an
\* extendFinalizeFromProperties that finds the output without channels (the
\* initialization after construction) and makes them the held table's column
\* labels; queries and every later extendFinalizeFromProperties leave it
\* unchanged.
C12_SetTableOrFirstFinalize ==
    [][channels' # channels =>
            \/ op'.name = "setTable"
            \/ /\ op'.name = "extendFinalizeFromProperties"
               /\ channels = {}
               /\ table' = table
               /\ channels' = LabelSet(table)]_vars

\* An initialization that registered the one column "a".
C12_Witness ==
    /\ op.name = "extendFinalizeFromProperties"
    /\ res = Ok
    /\ LabelSet(table) = {"a"}
    /\ channels = {"a"}

\* No addChannel call of the loop over labels, started on the channels chs,
\* is for a label that has a channel at the time of the call.
NoRegisteredLabelAdded(chs, labels) ==
    \A i \in 1..Len(labels) :
        labels[i] \notin chs \cup { labels[j] : j \in 1..(i - 1) }

\* C13: with unique column labels, neither extendFinalizeFromProperties nor
\* setTable ever calls addChannel for a label that already has a channel
\* (each repopulation follows a full clear), and no operation ends in a
\* DuplicateChannel fault.
C13_NoDuplicateChannel ==
    [][/\ (op'.name = "extendFinalizeFromProperties" /\ table.hasLabels) =>
             NoRegisteredLabelAdded(channels, table.labels)
       /\ (op'.name = "setTable" /\ op'.arg.hasLabels) =>
             NoRegisteredLabelAdded({}, op'.arg.labels)
       /\ res'.kind # "DuplicateChannel"]_vars

(* ---------------------- claims on the search index --------------------- *)

\* The query passed the empty and the range check.
PassedChecks == IsQuery /\ NonEmpty /\ First <= op.time /\ op.time <= Last
\* The insertion index (0-based) the query computes.
Idx == lower_bound(table.times, op.time)
\* The outcome is a value: of a row query, or of a column query for a column
\* label of the held table.
Answered == op.name = "getRowAtTime" \/ KnownLabel

\* C14: on a table with strictly increasing timestamps, a query that passed
\* the empty and range checks has 0 <= idx < rowCount; idx = 0 only at the
\* first timestamp, idx = rowCount only at the last (in fact never), and the
\* first-index branch returns the stored first sample.
C14_BoundaryBranches ==
    (PassedChecks /\ StrictlyIncreasing) =>
        /\ 0 <= Idx /\ Idx < Len(table.times)
        /\ Idx = 0 => op.time = First
        /\ Idx = Len(table.times) => op.time = Last
        /\ (Idx = 0 /\ op.name = "getRowAtTime") =>
              res = [kind |-> "value",
                     val |-> [k \in 1..Len(table.rows[1]) |-> <<table.rows[1][k], 1>>]]
        /\ (Idx = 0 /\ KnownLabel) =>
              res = [kind |-> "value",
                     val |-> <<table.rows[1][ColumnOf(op.label)], 1>>]

\* A row query at the first timestamp of a three-row table, at index 0.
C14_Witness ==
    /\ op.name = "getRowAtTime"
    /\ StrictlyIncreasing
    /\ Len(table.times) = 3
    /\ op.time = First
    /\ Idx = 0
    /\ res.kind = "value"

\* The query reaches the interpolation branch.
Interpolates ==
    /\ PassedChecks
    /\ Idx # 0
    /\ Idx # Len(table.times)
    /\ table.times[Idx + 1] # op.time

\* C15: on a table with non-decreasing timestamps (duplicates allowed), a
\* query in the interpolation branch reads valid rows (1 <= idx <=
\* rowCount - 1) with prev.time < time < next.time, so the denominator is
\* positive, the fraction lies strictly between 0 and 1, and the value is
\* finite.
C15_InterpolationWellDefined ==
    Interpolates =>
        /\ 1 <= Idx /\ Idx <= Len(table.times) - 1
        /\ table.times[Idx] < op.time
        /\ op.time < table.times[Idx + 1]
        /\ table.times[Idx + 1] - table.times[Idx] > 0
        /\ 0 < op.time - table.times[Idx]
        /\ op.time - table.times[Idx] < table.times[Idx + 1] - table.times[Idx]
        /\ Answered => res.kind = "value"
        /\ KnownLabel => res.val[2] > 0
        /\ op.name = "getRowAtTime" =>
              \A k \in 1..Len(res.val) : res.val[k][2] > 0

\* A column query interpolating after a duplicated timestamp: times
\* <<0, 0, 2>> queried at 1.
C15_Witness ==
    /\ KnownLabel
    /\ table.times = <<0, 0, 2>>
    /\ op.time = 1
    /\ Idx = 2
    /\ res.kind = "value"
    /\ res.val[2] = 2

====
